---- MODULE Spec2Model ----
(***************************************************************************)
(* Model of the accident-report verification backend                       *)
(* (backend/app/report_verifier.py, main.py, models.py).                   *)
(*                                                                         *)
(* Strings that the code parses or formats (dates, times of day) are       *)
(* sequences of one-character strings, so parsing and formatting are       *)
(* modelled by what they do.  Arabic literals of the source are written    *)
(* in an ASCII transliteration; the comment next to each gives the         *)
(* original.                                                               *)
(***************************************************************************)
EXTENDS Integers, Sequences, FiniteSets, TLC

VARIABLES
    op,     \* the function of the core that is called
    args,   \* its arguments, and what its environment answers during the call
    pc,     \* "call" before the function has run, "done" after
    ret,    \* what it returned (<<>> before)
    db,     \* models.py: the requests table, a sequence of rows (id = index)
    resp,   \* main.py: the HTTP response of the last API call
    now,    \* datetime.utcnow(), in hours
    flight, \* upload_video handlers suspended in "await video.read()"
    files,  \* storage.py: the requests that have a file in VIDEOS_DIR
    issued  \* how many tokens generate_token has handed out

vars == <<op, args, pc, ret, db, resp, now, flight, files, issued>>

----------------------------------------------------------------------------
(* Characters, int() and zero-padded formatting                            *)

Digits == <<"0", "1", "2", "3", "4", "5", "6", "7", "8", "9">>

IsDigit(c) == \E i \in 1..10 : Digits[i] = c

DigitVal(c) == (CHOOSE i \in 1..10 : Digits[i] = c) - 1

AllDigits(s) == Len(s) > 0 /\ \A i \in 1..Len(s) : IsDigit(s[i])

\* int(s) for a string of decimal digits
RECURSIVE IntOf(_)
IntOf(s) ==
    IF Len(s) = 0 THEN 0
    ELSE 10 * IntOf(SubSeq(s, 1, Len(s) - 1)) + DigitVal(s[Len(s)])

\* f"{n:02d}" for 0 <= n <= 999
Fmt02d(n) ==
    IF n < 10 THEN <<"0", Digits[n + 1]>>
    ELSE IF n < 100 THEN <<Digits[(n \div 10) + 1], Digits[(n % 10) + 1]>>
    ELSE <<Digits[(n \div 100) + 1], Digits[((n \div 10) % 10) + 1], Digits[(n % 10) + 1]>>

\* f"{n:04d}" for 0 <= n <= 9999
Fmt04d(n) ==
    <<Digits[(n \div 1000) + 1], Digits[((n \div 100) % 10) + 1],
      Digits[((n \div 10) % 10) + 1], Digits[(n % 10) + 1]>>

\* position of the first occurrence of character c in s, 0 if none
RECURSIVE FindChar(_, _, _)
FindChar(s, c, i) ==
    IF i > Len(s) THEN 0
    ELSE IF s[i] = c THEN i
    ELSE FindChar(s, c, i + 1)

\* str.split(c): the sequence of the parts of s between occurrences of c
RECURSIVE Split(_, _)
Split(s, c) ==
    LET k == FindChar(s, c, 1) IN
    IF k = 0 THEN <<s>>
    ELSE <<SubSeq(s, 1, k - 1)>> \o Split(SubSeq(s, k + 1, Len(s)), c)

Abs(n) == IF n < 0 THEN -n ELSE n

Min(a, b) == IF a <= b THEN a ELSE b

----------------------------------------------------------------------------
(* datetime: calendar dates                                                *)

IsLeap(y) == (y % 4 = 0) /\ ((y % 100 # 0) \/ (y % 400 = 0))

DaysInMonth(y, m) ==
    IF m = 2 THEN (IF IsLeap(y) THEN 29 ELSE 28)
    ELSE IF m \in {4, 6, 9, 11} THEN 30
    ELSE 31

\* datetime(y, m, d) raises ValueError unless this holds
ValidDate(y, m, d) ==
    /\ y \in 1..9999
    /\ m \in 1..12
    /\ d >= 1
    /\ d <= DaysInMonth(y, m)

RECURSIVE DaysBeforeMonth(_, _)
DaysBeforeMonth(y, m) ==
    IF m <= 1 THEN 0 ELSE DaysBeforeMonth(y, m - 1) + DaysInMonth(y, m - 1)

\* date.toordinal(): the number of the day, 0001-01-01 being day 1
Ordinal(dt) ==
    LET y1 == dt.y - 1 IN
    y1 * 365 + (y1 \div 4) - (y1 \div 100) + (y1 \div 400)
      + DaysBeforeMonth(dt.y, dt.m) + dt.d

\* (a - b).days for two datetimes at midnight
DaysBetween(a, b) == Ordinal(a) - Ordinal(b)

NoDate == [y |-> 0, m |-> 0, d |-> 0]

\* datetime.strptime(s, "%Y-%m-%d"): %Y is exactly four digits, %m and %d
\* one or two digits in range; NoDate stands for the ValueError
strptime(s) ==
    LET p == Split(s, "-") IN
    IF Len(p) # 3 THEN NoDate
    ELSE IF ~(AllDigits(p[1]) /\ Len(p[1]) = 4) THEN NoDate
    ELSE IF ~(AllDigits(p[2]) /\ Len(p[2]) <= 2) THEN NoDate
    ELSE IF ~(AllDigits(p[3]) /\ Len(p[3]) <= 2) THEN NoDate
    ELSE LET y == IntOf(p[1])
             m == IntOf(p[2])
             d == IntOf(p[3])
         IN IF ValidDate(y, m, d) THEN [y |-> y, m |-> m, d |-> d] ELSE NoDate

\* the "%Y-%m-%d" text of a date, as the HTML date input sends it
IsoDate(dt) == Fmt04d(dt.y) \o <<"-">> \o Fmt02d(dt.m) \o <<"-">> \o Fmt02d(dt.d)

----------------------------------------------------------------------------
(* compare_dates                                                           *)

\* The messages of the comparators are records: k names the wording, n is
\* the number the wording carries.
\*   "match"          = "مطابق"
\*   "match_diff"     = "مطابق (فرق n يوم)"
\*   "mismatch_diff"  = "غير مطابق (فرق n يوم)"
\*   "cannot_compare" = "تعذر المقارنة"
Msg(k, n) == [k |-> k, n |-> n]

compare_dates_noabs(extracted, user_date, max_diff_days) ==
    LET user_dt == strptime(user_date) IN
    IF user_dt = NoDate THEN [match |-> FALSE, msg |-> Msg("cannot_compare", 0)]
    ELSE LET diff == DaysBetween(extracted, user_dt) IN
         IF diff <= max_diff_days
         THEN [match |-> TRUE,
               msg |-> IF diff > 0 THEN Msg("match_diff", diff) ELSE Msg("match", 0)]
         ELSE [match |-> FALSE, msg |-> Msg("mismatch_diff", diff)]

compare_dates(extracted, user_date, max_diff_days) ==
    LET user_dt == strptime(user_date) IN
    IF user_dt = NoDate THEN [match |-> FALSE, msg |-> Msg("cannot_compare", 0)]
    ELSE LET diff == Abs(DaysBetween(extracted, user_dt)) IN
         IF diff <= max_diff_days
         THEN [match |-> TRUE,
               msg |-> IF diff > 0 THEN Msg("match_diff", diff) ELSE Msg("match", 0)]
         ELSE [match |-> FALSE, msg |-> Msg("mismatch_diff", diff)]

\* the default of the max_diff_days parameter
DefaultMaxDiffDays == 1

----------------------------------------------------------------------------
(* compare_times                                                           *)

\* int(parts[0]) * 60 + int(parts[1]) of s.split(":"); -1 stands for the
\* IndexError (no colon) or ValueError (a part that is no number)
MinutesOf(s) ==
    LET parts == Split(s, ":") IN
    IF Len(parts) < 2 THEN -1
    ELSE IF ~(AllDigits(parts[1]) /\ AllDigits(parts[2])) THEN -1
    ELSE IntOf(parts[1]) * 60 + IntOf(parts[2])

\*   "in_range"      = "مطابق للنطاق الزمني"
\*   "out_of_range"  = "خارج النطاق بـ n ساعة"
compare_times_strict(extracted, user_start, user_end, max_diff_hours) ==
    LET ext_minutes == MinutesOf(extracted)
        start_minutes == MinutesOf(user_start)
        end_minutes == MinutesOf(user_end)
        tolerance == max_diff_hours * 60
    IN
    IF ext_minutes = -1 \/ start_minutes = -1 \/ end_minutes = -1
    THEN [match |-> FALSE, msg |-> Msg("cannot_compare", 0)]
    ELSE IF start_minutes - tolerance < ext_minutes /\ ext_minutes < end_minutes + tolerance
    THEN [match |-> TRUE, msg |-> Msg("in_range", 0)]
    ELSE [match |-> FALSE,
          msg |-> Msg("out_of_range",
                      Min(Abs(ext_minutes - start_minutes), Abs(ext_minutes - end_minutes)) \div 60)]

compare_times(extracted, user_start, user_end, max_diff_hours) ==
    LET ext_minutes == MinutesOf(extracted)
        start_minutes == MinutesOf(user_start)
        end_minutes == MinutesOf(user_end)
        tolerance == max_diff_hours * 60
    IN
    IF ext_minutes = -1 \/ start_minutes = -1 \/ end_minutes = -1
    THEN [match |-> FALSE, msg |-> Msg("cannot_compare", 0)]
    ELSE IF start_minutes - tolerance <= ext_minutes /\ ext_minutes <= end_minutes + tolerance
    THEN [match |-> TRUE, msg |-> Msg("in_range", 0)]
    ELSE [match |-> FALSE,
          msg |-> Msg("out_of_range",
                      Min(Abs(ext_minutes - start_minutes), Abs(ext_minutes - end_minutes)) \div 60)]

\* the default of the max_diff_hours parameter
DefaultMaxDiffHours == 2

----------------------------------------------------------------------------
(* The text of a report                                                    *)

\* The extracted text is a sequence of tokens, in reading order.  A token is
\* a word or phrase, a date, a time of day, a coordinate pair or a national
\* address code; re.search(pattern, text) finds the first token the pattern
\* matches.
Word(v) == [t |-> "word", v |-> v]

\* najm_patterns, in the order of the list.  The Arabic ones are
\*   "ar:najm" نجم, "ar:liability report" تقرير تحديد المسؤولية,
\*   "ar:final report" التقرير النهائي, "ar:case number" رقم الحالة,
\*   "ar:accident time" وقت الحادث, "ar:accident location" مكان الحادث,
\*   "ar:accident coordinates" أحداثيات الحادث,
\*   "ar:liability share" نسبة المسؤولية, "ar:accident cause" سبب الحادث
najm_patterns ==
    << "ar:najm", "najm", "ar:liability report", "Liability Determination Report",
       "ar:final report", "Final Report", "ar:case number", "Case Number",
       "ar:accident time", "Accident Time", "ar:accident location", "Accident Location",
       "ar:accident coordinates", "Coordinate", "ar:liability share",
       "ar:accident cause", "Cause of Acc" >>

\* traffic_patterns, in the order of the list:
\*   "ar:traffic" المرور, "ar:traffic department" إدارة المرور,
\*   "ar:general traffic department" الإدارة العامة للمرور,
\*   "ar:traffic violation" مخالفة مرورية, "ar:traffic report" تقرير مروري
traffic_patterns ==
    << "ar:traffic", "ar:traffic department", "traffic",
       "ar:general traffic department", "ar:traffic violation", "ar:traffic report" >>

\* The literal patterns a word contains, ignoring case: itself, and
\* إدارة المرور contains المرور.  The other words of the model's vocabulary:
\*   "Version Date" (a date label that is no source pattern), "lorem" (no
\*   pattern at all), "ar:alriyadh" الرياض, "ar:street" شارع.
Contains(word, pattern) ==
    \/ word = pattern
    \/ word = "ar:traffic department" /\ pattern = "ar:traffic"
    \/ word = "NAJM" /\ pattern = "najm"
    \/ word = "Traffic" /\ pattern = "traffic"

\* re.search(pattern, text, re.IGNORECASE) for a literal pattern
Search(pattern, text) ==
    \E i \in 1..Len(text) : text[i].t = "word" /\ Contains(text[i].v, pattern)

\* the loop over najm_patterns that counts the patterns found
RECURSIVE NajmScore(_, _)
NajmScore(text, k) ==
    IF k = 0 THEN 0
    ELSE NajmScore(text, k - 1) + (IF Search(najm_patterns[k], text) THEN 1 ELSE 0)

\* the source labels: "najm" is "نجم", "traffic" is "المرور"
detect_report_source_najm_first(text) ==
    LET najm_score == NajmScore(text, Len(najm_patterns)) IN
    IF najm_score >= 1 THEN <<TRUE, "najm">>
    ELSE IF \E k \in 1..Len(traffic_patterns) : Search(traffic_patterns[k], text)
    THEN <<TRUE, "traffic">>
    ELSE <<FALSE, "">>

detect_report_source(text) ==
    LET najm_score == NajmScore(text, Len(najm_patterns)) IN
    IF najm_score >= 2 THEN <<TRUE, "najm">>
    ELSE IF \E k \in 1..Len(traffic_patterns) : Search(traffic_patterns[k], text)
    THEN <<TRUE, "traffic">>
    ELSE IF najm_score >= 1 THEN <<TRUE, "najm">>
    ELSE <<FALSE, "">>

----------------------------------------------------------------------------
(* The field extractors                                                    *)

\* extracted_coords is "" (s = "none") or the "lat, lng" text of the
\* coordinate pattern (s = "pair")
NoCoords == [s |-> "none", lat |-> 0, lng |-> 0]

Coords(lat, lng) == [s |-> "pair", lat |-> lat, lng |-> lng]

\* str.upper() on the characters the model's addresses use
Upper(c) ==
    CASE c = "r" -> "R"
      [] c = "d" -> "D"
      [] OTHER -> c

UpperStr(s) == [i \in 1..Len(s) |-> Upper(s[i])]

\* A date as written in the text: three numbers a, b, c in reading order.
\*   "dd/mm/yyyy" 02/09/2025   "d/m/yyyy" 2/9/2025   "d-m-yyyy" 02-09-2025
\*   "yyyy-mm-dd" 2025-09-02
DateTok(shape, a, b, c) == [t |-> "date", shape |-> shape, a |-> a, b |-> b, c |-> c]

\* A time as written: "h:mm:ss" 17:34:26, "h:mm" 5:34 with the marker that
\* follows it ("" when none), "at" الساعة 5 or الساعة 0530 (no colon) with
\* m = -1 when no minutes are written.  The markers: "AM", "PM", "pm", "ar:am" ص, "ar:pm" م.
TimeTok(shape, h, m, marker) ==
    [t |-> "time", shape |-> shape, h |-> h, m |-> m, marker |-> marker]

\* a decimal coordinate pair "24.7, 46.7"
CoordTok(lat, lng) == [t |-> "coords", lat |-> lat, lng |-> lng]

\* four letters and four digits, as written
AddrTok(code) == [t |-> "address", code |-> code]

\* match.group(1).upper() of a national address code
UpperCode(code) ==
    CASE code = "rrrd2929" -> "RRRD2929"
      [] OTHER -> code

\* a line break
Newline == [t |-> "nl"]

\* \d matches somewhere in the token
HasDigit(tok) == tok.t \in {"date", "time", "coords", "address"}

IsWord(tok, S) == tok.t = "word" /\ tok.v \in S

\* re.search finds the leftmost match: the least position of hits, 0 if none
First(hits) ==
    IF hits = {} THEN 0
    ELSE CHOOSE i \in hits : \A j \in hits : i <= j

\* the first token after position i that holds a digit: where [^\d]* stops
NextDigit(text, i) ==
    LET P(j) == HasDigit(text[j]) IN First({q \in (i + 1)..Len(text) : P(q)})

\* (\d{1,2})[/-](\d{1,2})[/-](20\d{2})
DayFirst == {"dd/mm/yyyy", "d/m/yyyy", "d-m-yyyy"}

\* وقت الحادث | Accident Time | تاريخ الإصدار | Version Date
DateLabels == {"ar:accident time", "Accident Time", "ar:issue date", "Version Date"}

\* the context-anchored date pattern: the position of the date it matches
AnchoredDate(text) ==
    LET P(i) == /\ IsWord(text[i], DateLabels)
                /\ NextDigit(text, i) # 0
                /\ text[NextDigit(text, i)].t = "date"
                /\ text[NextDigit(text, i)].shape \in DayFirst
        i == First({q \in 1..Len(text) : P(q)})
    IN IF i = 0 THEN 0 ELSE NextDigit(text, i)

DatePatterns_iso_first == << {"yyyy-mm-dd"}, {"dd/mm/yyyy"}, DayFirst >>

\* the three common date patterns, in the order of the list
DatePatterns == << {"dd/mm/yyyy"}, DayFirst, {"yyyy-mm-dd"} >>

\* the date a matched token gives; NoDate stands for the ValueError
DateOf(tok) ==
    IF tok.shape = "yyyy-mm-dd"
    THEN IF ValidDate(tok.a, tok.b, tok.c) THEN [y |-> tok.a, m |-> tok.b, d |-> tok.c] ELSE NoDate
    ELSE IF ValidDate(tok.c, tok.b, tok.a) THEN [y |-> tok.c, m |-> tok.b, d |-> tok.a] ELSE NoDate

RECURSIVE TryDatePatterns(_, _)
TryDatePatterns(text, k) ==
    IF k > Len(DatePatterns) THEN NoDate
    ELSE LET P(i) == text[i].t = "date" /\ text[i].shape \in DatePatterns[k]
             i == First({q \in 1..Len(text) : P(q)})
         IN IF i # 0 /\ DateOf(text[i]) # NoDate THEN DateOf(text[i])
            ELSE TryDatePatterns(text, k + 1)

\* NoDate stands for None
extract_date_from_text(text) ==
    LET j == AnchoredDate(text) IN
    IF j # 0 /\ DateOf(text[j]) # NoDate THEN DateOf(text[j])
    ELSE TryDatePatterns(text, 1)

\* وقت الحادث | Accident Time
TimeLabels == {"ar:accident time", "Accident Time"}

\* the context-anchored time pattern: a label, a date written with slashes
\* and, after white space, a time; the position of the time it matches
AnchoredTime(text) ==
    LET P(i) == /\ IsWord(text[i], TimeLabels)
                /\ NextDigit(text, i) # 0
                /\ NextDigit(text, i) < Len(text)
                /\ text[NextDigit(text, i)].t = "date"
                /\ text[NextDigit(text, i)].shape \in {"dd/mm/yyyy", "d/m/yyyy"}
                /\ text[NextDigit(text, i) + 1].t = "time"
                /\ text[NextDigit(text, i) + 1].shape \in {"h:mm:ss", "h:mm"}
        i == First({q \in 1..Len(text) : P(q)})
    IN IF i = 0 THEN 0 ELSE NextDigit(text, i) + 1

HHMM(h, m) == Fmt02d(h) \o <<":">> \o Fmt02d(m)

\* "" stands for None
NoTime == <<>>

\* the conversion to 24 hours; the period lists hold 'م', 'PM', 'مساء' and
\* 'ص', 'AM', 'صباح' (a marker مساء or صباح is captured as its first letter)
To24h(hour, period) ==
    IF period \in {"ar:pm", "PM"} /\ hour # 12 THEN hour + 12
    ELSE IF period \in {"ar:am", "AM"} /\ hour = 12 THEN 0
    ELSE hour

\* what the marker group captures at the start of a token: the م of
\* مكان الحادث and of مخالفة مرورية; no other word of the texts starts with a
\* marker
LeadingMarker(tok) ==
    IF IsWord(tok, {"ar:accident location", "ar:traffic violation"}) THEN "ar:pm" ELSE ""

\* The marker group after the time at position i: "\s*" passes spaces and
\* line breaks, so the marker is the one written after the time or, when
\* none is written, the one that starts the next word.
MarkerAt(text, i) ==
    IF text[i].marker # "" THEN text[i].marker
    ELSE LET P(j) == text[j].t # "nl"
             j == First({q \in (i + 1)..Len(text) : P(q)})
         IN IF j = 0 THEN "" ELSE LeadingMarker(text[j])

\* the three time patterns, in the order of the list; the third group of the
\* first pattern is the seconds, which are in neither period list
extract_time_from_text(text) ==
    LET j == AnchoredTime(text)
        P1(i) == text[i].t = "time" /\ text[i].shape = "h:mm:ss"
        P2(i) == text[i].t = "time" /\ text[i].shape \in {"h:mm:ss", "h:mm"}
        P3(i) == text[i].t = "time" /\ text[i].shape = "at"
        i1 == First({q \in 1..Len(text) : P1(q)})
        i2 == First({q \in 1..Len(text) : P2(q)})
        i3 == First({q \in 1..Len(text) : P3(q)})
    IN IF j # 0 THEN HHMM(text[j].h, text[j].m)
       ELSE IF i1 # 0 THEN HHMM(text[i1].h, text[i1].m)
       ELSE IF i2 # 0 THEN HHMM(To24h(text[i2].h, MarkerAt(text, i2)), text[i2].m)
       ELSE IF i3 # 0
       THEN HHMM(To24h(text[i3].h, IF MarkerAt(text, i3) \in {"ar:am", "ar:pm"}
                                   THEN MarkerAt(text, i3) ELSE ""),
                 IF text[i3].m = -1 THEN 0 ELSE text[i3].m)
       ELSE NoTime

\* The first run of characters of the class
\* [الرياضجدةمكةالمدينةالدمامالخبرالطائفتبوكأبهاالقصيم] in a token, "" when it
\* holds none: a city name is such a run as a whole, نجم and المرور too; of
\* شارع it is ار ("ar:ar"), of مكان الحادث it is مكان ("ar:makan"), of
\* وقت الحادث it is وقت ("ar:waqt"), of الساعة it is ال ("ar:al"), and so on
\* for the other phrases; Latin words, numbers and Latin markers hold none.
ClassRun(tok) ==
    IF tok.t = "word"
    THEN CASE tok.v \in {"ar:alriyadh", "ar:jeddah", "ar:najm", "ar:traffic"} -> tok.v
           [] tok.v = "ar:street" -> "ar:ar"
           [] tok.v = "ar:accident location" -> "ar:makan"
           [] tok.v = "ar:accident time" -> "ar:waqt"
           [] tok.v \in {"ar:liability report", "ar:traffic report"} -> "ar:taqrir"
           [] tok.v = "ar:final report" -> "ar:altaqrir"
           [] tok.v = "ar:case number" -> "ar:raqm"
           [] tok.v = "ar:accident coordinates" -> "ar:alif"
           [] tok.v = "ar:liability share" -> "ar:nun"
           [] tok.v = "ar:accident cause" -> "ar:baba"
           [] tok.v = "ar:traffic department" -> "ar:dara"
           [] tok.v = "ar:general traffic department" -> "ar:al"
           [] tok.v = "ar:traffic violation" -> "ar:mukhalafa"
           [] OTHER -> ""
    ELSE IF tok.t = "time" /\ tok.shape = "at" THEN "ar:al"
    ELSE IF tok.t = "time" /\ tok.marker \in {"ar:am", "ar:pm"} THEN tok.marker
    ELSE ""

\* the end of the line that holds position i
LineEnd(text, i) ==
    LET P(j) == text[j].t = "nl"
        j == First({q \in (i + 1)..Len(text) : P(q)})
    IN IF j = 0 THEN Len(text) ELSE j - 1

\* مكان الحادث | Accident Location (the search is case-sensitive)
LocationLabels == {"ar:accident location", "Accident Location"}

\* areas, in the order of the list: the cities the model's texts name
areas == <<"ar:alriyadh", "ar:jeddah">>

\* extract_location_from_text: (city, coordinates)
extract_location_from_text(text) ==
    LET InClass(i) == ClassRun(text[i]) # ""
        Labelled(i) == /\ IsWord(text[i], LocationLabels)
                       /\ First({q \in (i + 1)..LineEnd(text, i) : InClass(q)}) # 0
        l == First({q \in 1..Len(text) : Labelled(q)})
        by_label == IF l = 0 THEN ""
                    ELSE ClassRun(text[First({q \in (l + 1)..LineEnd(text, l) : InClass(q)})])
        Named(k) == \E i \in 1..Len(text) : text[i].t = "word" /\ text[i].v = areas[k]
        a == First({q \in 1..Len(areas) : Named(q)})
        city == IF by_label # "" THEN by_label
                ELSE IF a # 0 THEN areas[a]
                ELSE ""
        IsCoord(i) == text[i].t = "coords"
        c == First({q \in 1..Len(text) : IsCoord(q)})
        coordinates == IF c = 0 THEN NoCoords ELSE Coords(text[c].lat, text[c].lng)
        IsAddr(i) == text[i].t = "address"
        n == First({q \in 1..Len(text) : IsAddr(q)})
    IN IF n # 0 THEN <<UpperCode(text[n].code), coordinates>>
       ELSE <<city, coordinates>>

----------------------------------------------------------------------------
(* Coordinates, distance and the geocoding client                          *)

\* Latitudes and longitudes are whole numbers of a local grid whose unit is
\* 100 m north or east.  At the scale of the tolerance the haversine
\* distance is the Euclidean distance on that grid; it is rounded up to a
\* whole unit, which keeps "distance <= limit" exact for a whole limit.
\* Inf is float("inf"), which float(result['lat']) accepts.
Inf == 1000000

\* MAX_DISTANCE_KM = 5.0, in grid units
MAX_DISTANCE == 50

\* float("nan"): inf - inf; no distance is nan, and every comparison with it
\* is false
NaN == -1

\* the least d with d * d >= n, for lo * lo < n <= hi * hi or n = lo = 0
RECURSIVE CeilSqrt(_, _, _)
CeilSqrt(n, lo, hi) ==
    IF n = 0 THEN 0
    ELSE IF hi - lo <= 1 THEN hi
    ELSE LET mid == (lo + hi) \div 2 IN
         IF mid * mid >= n THEN CeilSqrt(n, lo, mid) ELSE CeilSqrt(n, mid, hi)

\* calculate_distance_km when it returns; math.sin and math.cos raise
\* ValueError on an infinite argument, see Raises.  Two infinite longitudes
\* differ by nan, which the functions of math pass on.
calculate_distance_km(lat1, lng1, lat2, lng2) ==
    IF lng1 = Inf /\ lng2 = Inf THEN NaN
    ELSE LET n == (lat2 - lat1) * (lat2 - lat1) + (lng2 - lng1) * (lng2 - lng1)
         IN CeilSqrt(n, 0, 2000)

\* calculate_distance_km raises ValueError("math domain error"): cos of an
\* infinite latitude, or sin of an infinite difference of longitudes
Raises(p, q) == p.lat = Inf \/ q.lat = Inf \/ (p.lng = Inf) # (q.lng = Inf)

\* geocode_address returns (0, 0, "") on every failure
Sentinel == [lat |-> 0, lng |-> 0, name |-> ""]

Place(lat, lng) == [lat |-> lat, lng |-> lng, name |-> "place"]

\* The messages of compare_locations: k names the wording, d is the distance
\* shown (f"{distance:.1f}", in tenths of a km, which is the grid unit),
\* label the place or city name shown, at the coordinates shown.
\*   "no_location"      = "لم يُعثر على موقع في التقرير"
\*   "match_distance"   = "مطابق - المسافة d كم (label)"
\*   "mismatch_distance"= "غير مطابق - المسافة d كم (الحد الأقصى 5.0 كم)"
\*   "report_coords"    = "إحداثيات التقرير: label (lat, lng)"
\*   "coords"           = "إحداثيات: lat, lng"
\*   "same_area"        = "نفس المنطقة - label (d كم)"
\*   "different_areas"  = "مناطق مختلفة - التقرير: label, المسافة: d كم"
\*   "city"             = "المدينة: label"
\*   "cannot_verify"    = "تعذر التحقق من الموقع"
\*   "nearby" as a label is 'موقع قريب'
LocMsg(k, d, label, at) == [k |-> k, d |-> d, label |-> label, at |-> at]

NoPoint == [lat |-> 0, lng |-> 0]

\* geocode_address(address) as it is asked: for the user's address (its
\* characters) or for the extracted city (its name)
AddressQuery(address) == [kind |-> "address", text |-> address, name |-> ""]

CityQuery(city) == [kind |-> "city", text |-> <<>>, name |-> city]

\* What a call of compare_locations gives: raised tells that an exception
\* left it; calls lists the queries sent to the forward geocoder, in order.
LocRet(match, msg, calls) == [raised |-> FALSE, match |-> match, msg |-> msg, calls |-> calls]

LocRaised(calls) ==
    [raised |-> TRUE, match |-> FALSE, msg |-> LocMsg("", 0, "", NoPoint), calls |-> calls]

\* the guard of tier 1: "if we have both coordinates"
BothResolve(report, user) ==
    report.lat # 0 /\ report.lng # 0 /\ user.lat # 0 /\ user.lng # 0

\* distance <= MAX_DISTANCE_KM, and <= MAX_DISTANCE_KM * 2 for a city
WithinLimit(distance, limit) == distance # NaN /\ distance <= limit

NeedsRetry_either(place) == place.lat = 0 \/ place.lng = 0

\* "if user_lat == 0 and user_lng == 0": the first answer is the sentinel
NeedsRetry(place) == place.lat = 0 /\ place.lng = 0

CityFallback_never(extracted_city, calls) ==
    LocRet(FALSE, LocMsg("cannot_verify", 0, "", NoPoint), calls)

\* "Fallback to city name comparison": the last two returns
CityFallback(extracted_city, calls) ==
    IF extracted_city # ""
    THEN LocRet(TRUE, LocMsg("city", 0, extracted_city, NoPoint), calls)
    ELSE LocRet(FALSE, LocMsg("cannot_verify", 0, "", NoPoint), calls)

\* env: what the geocoding service answers during the call:
\*   fwd_user   geocode_address(user_address)
\*   fwd_prefix geocode_address(prefix), asked only after a sentinel
\*   rev        reverse_geocode(report_lat, report_lng)
\*   fwd_city   geocode_address(extracted_city)
compare_locations(extracted_city, extracted_coords, user_address, env) ==
    IF extracted_city = "" /\ extracted_coords.s = "none"
    THEN LocRet(FALSE, LocMsg("no_location", 0, "", NoPoint), <<>>)
    ELSE
    LET report == IF extracted_coords.s = "pair"
                  THEN [lat |-> extracted_coords.lat, lng |-> extracted_coords.lng]
                  ELSE [lat |-> 0, lng |-> 0]
        retry == NeedsRetry(env.fwd_user)
        prefix == IF Len(user_address) >= 4
                  THEN UpperStr(SubSeq(user_address, 1, 4))
                  ELSE user_address
        user == IF retry THEN env.fwd_prefix ELSE env.fwd_user
        calls == IF retry THEN <<AddressQuery(user_address), AddressQuery(prefix)>>
                 ELSE <<AddressQuery(user_address)>>
    IN
    IF BothResolve(report, user)
    THEN IF Raises(report, user) THEN LocRaised(calls)
         ELSE LET distance == calculate_distance_km(report.lat, report.lng, user.lat, user.lng)
                  report_location == IF env.rev # "" THEN env.rev ELSE extracted_city
              IN IF WithinLimit(distance, MAX_DISTANCE)
                 THEN LocRet(TRUE,
                             LocMsg("match_distance", distance,
                                    IF report_location # "" THEN report_location ELSE "nearby",
                                    NoPoint),
                             calls)
                 ELSE LocRet(FALSE, LocMsg("mismatch_distance", distance, "", NoPoint), calls)
    ELSE IF report.lat # 0 /\ report.lng # 0
    THEN IF env.rev # ""
         THEN LocRet(TRUE, LocMsg("report_coords", 0, env.rev, report), calls)
         ELSE LocRet(TRUE, LocMsg("coords", 0, "", report), calls)
    ELSE IF extracted_city # "" /\ user.lat # 0 /\ env.fwd_city.lat # 0
    THEN IF Raises(env.fwd_city, user) THEN LocRaised(Append(calls, CityQuery(extracted_city)))
         ELSE LET distance == calculate_distance_km(env.fwd_city.lat, env.fwd_city.lng,
                                                    user.lat, user.lng)
              IN IF WithinLimit(distance, MAX_DISTANCE * 2)
                 THEN LocRet(TRUE, LocMsg("same_area", distance, extracted_city, NoPoint),
                             Append(calls, CityQuery(extracted_city)))
                 ELSE LocRet(FALSE, LocMsg("different_areas", distance, extracted_city, NoPoint),
                             Append(calls, CityQuery(extracted_city)))
    ELSE CityFallback(extracted_city,
                      IF extracted_city # "" /\ user.lat # 0
                      THEN Append(calls, CityQuery(extracted_city))
                      ELSE calls)

----------------------------------------------------------------------------
(* extract_text_from_pdf and verify_report                                 *)

\* A document as the extractor meets it: whether PyMuPDF is installed,
\* whether fitz.open succeeds, and per page its text or that get_text throws.
Pdf(has_pymupdf, opens, pages) == [has_pymupdf |-> has_pymupdf, opens |-> opens, pages |-> pages]

Page(text) == [throws |-> FALSE, text |-> text]

BadPage == [throws |-> TRUE, text |-> <<>>]

RECURSIVE PagesText(_)
PagesText(pages) ==
    IF Len(pages) = 0 THEN <<>> ELSE pages[1].text \o PagesText(Tail(pages))

\* One run of extract_text_from_pdf: the text it returns (the empty
\* sequence is the empty string), whether fitz.open gave a document, and
\* whether doc.close() ran before the return.  A page that throws sends the
\* run to the except clause, past doc.close().
ExtractRun(pdf) ==
    IF ~pdf.has_pymupdf THEN [text |-> <<>>, opened |-> FALSE, closed |-> FALSE]
    ELSE IF ~pdf.opens THEN [text |-> <<>>, opened |-> FALSE, closed |-> FALSE]
    ELSE IF \E i \in 1..Len(pdf.pages) : pdf.pages[i].throws
    THEN [text |-> <<>>, opened |-> TRUE, closed |-> FALSE]
    ELSE [text |-> PagesText(pdf.pages), opened |-> TRUE, closed |-> TRUE]

extract_text_from_pdf(pdf) == ExtractRun(pdf).text

\* The entries of matches: k names the wording, m is the comparator's message
\* inside it, label a name shown.
\*   "source_verified"   = "تقرير label - تم التحقق ✓"
\*   "source_unknown"    = "مصدر التقرير غير معروف ✗"
\*   "date"              = "التاريخ: m"
\*   "no_date"           = "لم يُعثر على تاريخ في التقرير"
\*   "time"              = "الوقت: m"
\*   "no_time"           = "لم يُعثر على وقت في التقرير"
\*   "location"          = "الموقع: m"
\*   "no_location"       = "لم يُعثر على موقع في التقرير"
\*   "demo_date"         = "التاريخ: user_date - مطابق ✓"
\*   "demo_time"         = "الوقت: start - end - مطابق ✓"
\*   "demo_match_distance"    = "مطابق - المسافة d كم (label)"
\*   "demo_mismatch_distance" = "غير مطابق - المسافة d كم"
\*   "demo_location"     = "الموقع: label - تم التحقق"
Entry_flat(k, m, label) ==
    [k |-> IF k = "source_unknown" THEN "source_verified" ELSE k, m |-> m, label |-> label]

Entry(k, m, label) == [k |-> k, m |-> m, label |-> label]

NoMsg == Msg("", 0)

\* The verdict messages.
\*   "verified"      = "تم التحقق من التقرير بنجاح - البيانات متطابقة"
\*   "partial"       = "تحقق جزئي - بعض البيانات غير متطابقة"
\*   "warning"       = "تحذير - التقرير قد لا يكون صحيحاً"
\*   "demo_partial"  = "تحقق جزئي - بعض البيانات تحتاج مراجعة"
\*   "demo_warning"  = "تحذير - يرجى التأكد من صحة البيانات"
Verdict(confidence, partial, warning) ==
    IF confidence >= 80 THEN "verified"
    ELSE IF confidence >= 50 THEN partial
    ELSE warning

Points(b, n) == IF b THEN n ELSE 0

Score_flat(is_valid_source, date_match, time_match, location_match) ==
    Points(is_valid_source, 25) + Points(date_match, 25) + Points(time_match, 25)
      + Points(location_match, 25)

\* the confidence: 30 for the source, 30 for the date, 20 for the time, 20
\* for the location
Score(is_valid_source, date_match, time_match, location_match) ==
    Points(is_valid_source, 30) + Points(date_match, 30) + Points(time_match, 20)
      + Points(location_match, 20)

\* "extracted_city or extracted_coords": the city when there is one, else
\* the coordinates text
Shown(city, coords) ==
    IF city # "" THEN [city |-> city, coords |-> NoCoords]
    ELSE [city |-> "", coords |-> coords]

\* VerificationResult(): the fields as the constructor sets them.  raised
\* tells that an exception left verify_report instead of a result; path
\* names the branch that ran.
NewResult ==
    [raised |-> FALSE, path |-> "",
     is_valid_source |-> FALSE, source_name |-> "",
     extracted_date |-> NoDate, extracted_time |-> NoTime,
     extracted_location |-> Shown("", NoCoords),
     date_match |-> FALSE, time_match |-> FALSE, location_match |-> FALSE,
     confidence |-> 0, message |-> "", matches |-> <<>>, raw_text |-> <<>>]

VerifyRaised(path) == [NewResult EXCEPT !.raised = TRUE, !.path = path]

\* user_address[:4]
First4(s) == IF Len(s) >= 4 THEN SubSeq(s, 1, 4) ELSE s

\* the demo branch: the text is empty.  env.offset is the pair
\* random.uniform draws.
verify_demo(user_date, user_start_time, user_end_time, user_address, env) ==
    LET user == env.fwd_user
        resolved == user.lat # 0 /\ user.lng # 0
        report == [lat |-> IF user.lat = Inf THEN Inf ELSE user.lat + env.offset[1],
                   lng |-> IF user.lng = Inf THEN Inf ELSE user.lng + env.offset[2]]
        distance == calculate_distance_km(report.lat, report.lng, user.lat, user.lng)
        report_location == IF env.rev # "" THEN env.rev ELSE user.name
        location_match == IF resolved THEN WithinLimit(distance, MAX_DISTANCE) ELSE TRUE
        location_msg ==
            IF resolved
            THEN IF location_match
                 THEN Entry("demo_match_distance", Msg("", distance), report_location)
                 ELSE Entry("demo_mismatch_distance", Msg("", distance), "")
            ELSE Entry("demo_location", NoMsg, First4(user_address))
        confidence == Min(30 + Points(TRUE, 30) + Points(TRUE, 20) + Points(location_match, 20), 100)
    IN
    IF resolved /\ Raises(report, user) THEN VerifyRaised("demo")
    ELSE [NewResult EXCEPT
            !.path = "demo",
            !.is_valid_source = TRUE,
            !.source_name = "najm",
            !.date_match = TRUE,
            !.time_match = TRUE,
            !.location_match = location_match,
            !.extracted_location = IF resolved THEN Shown("", Coords(report.lat, report.lng)) ELSE @,
            !.confidence = confidence,
            !.message = Verdict(confidence, "demo_partial", "demo_warning"),
            !.matches = [source |-> Entry("source_verified", NoMsg, "najm"),
                         date |-> Entry("demo_date", NoMsg, user_date),
                         time |-> Entry("demo_time", NoMsg, <<user_start_time, user_end_time>>),
                         location |-> location_msg]]

\* the branch for a text that is not empty
verify_text(text, user_date, user_start_time, user_end_time, user_address, env) ==
    LET source == detect_report_source(text)
        extracted_date == extract_date_from_text(text)
        dates == IF extracted_date # NoDate
                 THEN compare_dates(extracted_date, user_date, DefaultMaxDiffDays)
                 ELSE [match |-> FALSE, msg |-> NoMsg]
        extracted_time == extract_time_from_text(text)
        times == IF extracted_time # NoTime
                 THEN compare_times(extracted_time, user_start_time, user_end_time,
                                    DefaultMaxDiffHours)
                 ELSE [match |-> FALSE, msg |-> NoMsg]
        location == extract_location_from_text(text)
        located == location[1] # "" \/ location[2].s # "none"
        places == IF located
                  THEN compare_locations(location[1], location[2], user_address, env)
                  ELSE LocRet(FALSE, LocMsg("", 0, "", NoPoint), <<>>)
        score == Score(source[1], dates.match, times.match, places.match)
    IN
    IF places.raised THEN VerifyRaised("text")
    ELSE [NewResult EXCEPT
            !.path = "text",
            !.raw_text = text,
            !.is_valid_source = source[1],
            !.source_name = source[2],
            !.extracted_date = extracted_date,
            !.date_match = dates.match,
            !.extracted_time = extracted_time,
            !.time_match = times.match,
            !.extracted_location = Shown(location[1], location[2]),
            !.location_match = places.match,
            !.confidence = score,
            !.message = Verdict(score, "partial", "warning"),
            !.matches = [source |-> IF source[1]
                                    THEN Entry("source_verified", NoMsg, source[2])
                                    ELSE Entry("source_unknown", NoMsg, ""),
                         date |-> IF extracted_date # NoDate
                                  THEN Entry("date", dates.msg, "")
                                  ELSE Entry("no_date", NoMsg, ""),
                         time |-> IF extracted_time # NoTime
                                  THEN Entry("time", times.msg, "")
                                  ELSE Entry("no_time", NoMsg, ""),
                         location |-> IF located
                                      THEN Entry("location", places.msg, "")
                                      ELSE Entry("no_location", NoMsg, "")]]

IsDemo_unrecognised(text) == text = <<>> \/ ~detect_report_source(text)[1]

\* "if not text": the demo branch is taken on the empty string
IsDemo(text) == text = <<>>

verify_report(pdf_path, user_date, user_start_time, user_end_time, user_address, env) ==
    LET text == extract_text_from_pdf(pdf_path) IN
    IF IsDemo(text)
    THEN verify_demo(user_date, user_start_time, user_end_time, user_address, env)
    ELSE verify_text(text, user_date, user_start_time, user_end_time, user_address, env)

----------------------------------------------------------------------------
(* Inputs of the comparators                                               *)

\* A user-supplied date: the numbers typed and the way they are written.
\*   "iso"    2025-09-02     "short"  2025-9-2     "slash"  02/09/2025
DateForms == {"iso", "short", "slash"}

Str(n) == IF n < 10 THEN <<Digits[n + 1]>> ELSE Fmt02d(n)

RenderDate(u) ==
    CASE u.form = "iso"   -> IsoDate(u)
      [] u.form = "short" -> Fmt04d(u.y) \o <<"-">> \o Str(u.m) \o <<"-">> \o Str(u.d)
      [] u.form = "slash" -> Fmt02d(u.d) \o <<"/">> \o Fmt02d(u.m) \o <<"/">> \o Fmt04d(u.y)

\* year, month, day triples around month ends, a leap day and a year end
DayTriples ==
    { <<2024, 2, 28>>, <<2024, 2, 29>>, <<2024, 3, 1>>, <<2024, 3, 2>>,
      <<2024, 12, 30>>, <<2024, 12, 31>>, <<2025, 1, 1>>, <<2025, 1, 2>>,
      <<2025, 2, 28>>, <<2025, 3, 1>>, <<2025, 9, 2>>, <<2025, 9, 3>>, <<2025, 9, 5>> }

\* triples that are no calendar date
BadDayTriples == { <<2025, 2, 29>>, <<2025, 13, 1>>, <<2025, 4, 31>>, <<2025, 9, 0>> }

\* the datetimes extract_date_from_text can return
ExtractedDates == { [y |-> t[1], m |-> t[2], d |-> t[3]] : t \in DayTriples }

UserDates ==
    { [y |-> t[1], m |-> t[2], d |-> t[3], form |-> f] :
        t \in DayTriples \cup BadDayTriples, f \in DateForms }

\* A time of day as written: the numbers and the form.
\*   "hh:mm" 17:05   "h:mm" 7:05   "hh:mm:ss" 17:05:00   "hhmm" 1705   "text" ab:cd
TimeForms == {"hh:mm", "h:mm", "hh:mm:ss", "hhmm", "text"}

RenderTime(t) ==
    CASE t.form = "hh:mm"    -> Fmt02d(t.h) \o <<":">> \o Fmt02d(t.m)
      [] t.form = "h:mm"     -> Str(t.h) \o <<":">> \o Fmt02d(t.m)
      [] t.form = "hh:mm:ss" -> Fmt02d(t.h) \o <<":">> \o Fmt02d(t.m) \o <<":", "0", "0">>
      [] t.form = "hhmm"     -> Fmt02d(t.h) \o Fmt02d(t.m)
      [] t.form = "text"     -> <<"a", "b", ":", "c", "d">>

\* the forms int() and split(":") read as hours and minutes
Readable(t) == t.form \in {"hh:mm", "h:mm", "hh:mm:ss"}

ClockPairs ==
    { <<0, 0>>, <<0, 30>>, <<1, 0>>, <<2, 59>>, <<9, 0>>, <<11, 1>>, <<12, 0>>,
      <<14, 59>>, <<15, 0>>, <<17, 34>>, <<18, 0>>, <<20, 0>>, <<20, 1>>, <<23, 0>>, <<23, 59>> }

\* what extract_time_from_text returns: always f"{hour:02d}:{minute:02d}"
ExtractedTimes == { [h |-> p[1], m |-> p[2], form |-> "hh:mm"] : p \in ClockPairs }

UserTimes ==
    { [h |-> p[1], m |-> p[2], form |-> "hh:mm"] : p \in ClockPairs }
      \cup { [h |-> 7, m |-> 5, form |-> f] : f \in TimeForms }

Tolerances == {0, 1, DefaultMaxDiffHours}

----------------------------------------------------------------------------------------------------------------------------------------
(* The comparators as operations: the call is chosen initially, the action *)
(* runs the function on it.                                                *)

DateCalls ==
    { [extracted |-> e, user |-> u, user_date |-> RenderDate(u)] :
        e \in ExtractedDates, u \in UserDates }

TimeCalls ==
    { [ext |-> e, start |-> s, end |-> n, tol |-> tol,
       extracted |-> RenderTime(e), user_start |-> RenderTime(s),
       user_end |-> RenderTime(n)] :
        e \in ExtractedTimes, s \in UserTimes, n \in UserTimes, tol \in Tolerances }

\* the words of the texts detect_report_source is run on
SourceWords ==
    { "ar:najm", "NAJM", "Final Report", "Accident Time", "Traffic",
      "ar:traffic department", "Version Date", "lorem" }

\* the longest text, in tokens, detect_report_source is run on
MaxWords == 3

RECURSIVE SeqsUpTo(_, _)
SeqsUpTo(S, n) ==
    IF n = 0 THEN {<<>>}
    ELSE LET shorter == SeqsUpTo(S, n - 1) IN
         shorter \cup { Append(q, x) : q \in { r \in shorter : Len(r) = n - 1 }, x \in S }

SourceCalls == { [text |-> q] : q \in SeqsUpTo({ Word(v) : v \in SourceWords }, MaxWords) }

DetectReportSource ==
    /\ pc = "call"
    /\ op = "detect_report_source"
    /\ ret' = detect_report_source(args.text)
    /\ pc' = "done"
    /\ UNCHANGED <<op, args, db, resp, now, flight, files, issued>>

\* the national address the user typed
UserAddresses ==
    { <<"R", "R", "R", "D", "2", "9", "2", "9">>,
      <<"r", "r", "r", "d", "2", "9", "2", "9">>,
      <<"R", "R", "D">> }

\* the city slot of extract_location_from_text: nothing, a city name
\* (الرياض), a national address code
ExtractedCities == {"", "ar:alriyadh", "RRRD2929"}

\* the coordinates slot: nothing, a point in Riyadh, and pairs with a zero
ExtractedCoords ==
    { NoCoords, Coords(247, 467), Coords(0, 467), Coords(247, 0), Coords(0, 0) }

\* answers of the forward geocoder for the user's address: no answer, the
\* report's point, 5.0 km, 5.1 km and (3 km, 4 km) from it, points with a
\* zero coordinate, an infinite latitude
UserPlaces ==
    { Sentinel, Place(247, 467), Place(297, 467), Place(298, 467), Place(277, 507),
      Place(0, 467), Place(247, 0), Place(Inf, 467) }

PrefixPlaces == { Sentinel, Place(247, 467), Place(298, 467) }

\* answers for the city: no answer, 10.0 km and 10.1 km from the user's
\* first place, an infinite latitude
CityPlaces == { Sentinel, Place(347, 467), Place(348, 467), Place(Inf, 467) }

\* answers of the reverse geocoder: nothing, a road name
ReverseLabels == {"", "road"}

GeoAnswers ==
    [fwd_user : UserPlaces, fwd_prefix : PrefixPlaces, rev : ReverseLabels,
     fwd_city : CityPlaces]

LocationCalls ==
    [extracted_city : ExtractedCities, extracted_coords : ExtractedCoords,
     user_address : UserAddresses, env : GeoAnswers]

CompareLocations ==
    /\ pc = "call"
    /\ op = "compare_locations"
    /\ ret' = compare_locations(args.extracted_city, args.extracted_coords,
                                args.user_address, args.env)
    /\ pc' = "done"
    /\ UNCHANGED <<op, args, db, resp, now, flight, files, issued>>

CompareDates ==
    /\ pc = "call"
    /\ op = "compare_dates"
    /\ ret' = compare_dates(args.extracted, args.user_date, DefaultMaxDiffDays)
    /\ pc' = "done"
    /\ UNCHANGED <<op, args, db, resp, now, flight, files, issued>>

CompareTimes ==
    /\ pc = "call"
    /\ op = "compare_times"
    /\ ret' = compare_times(args.extracted, args.user_start, args.user_end, args.tol)
    /\ pc' = "done"
    /\ UNCHANGED <<op, args, db, resp, now, flight, files, issued>>

InitCompare ==
    /\ \/ op = "compare_dates" /\ args \in DateCalls
       \/ op = "compare_times" /\ args \in TimeCalls
       \/ op = "detect_report_source" /\ args \in SourceCalls
       \/ op = "compare_locations" /\ args \in LocationCalls
    /\ pc = "call"
    /\ ret = <<>>
    /\ db = <<>>
    /\ resp = <<>>
    /\ now = 0
    /\ flight = <<>>
    /\ files = {}
    /\ issued = 0

NextCompare ==
    \/ DetectReportSource
    \/ CompareDates
    \/ CompareTimes
    \/ CompareLocations

SpecCompare == InitCompare /\ [][NextCompare]_vars

----------------------------------------------------------------------------
(* verify_report as an operation                                           *)

\* A liability report of Najm and a traffic report, token by token.  The
\* second holds a date that is no calendar date before an ISO date, a
\* 12-hour time, a national address code and coordinates with a zero.
NajmReport ==
    << Word("Accident Time"), DateTok("dd/mm/yyyy", 2, 9, 2025),
       TimeTok("h:mm:ss", 17, 34, ""), Word("Accident Location"),
       Word("ar:alriyadh"), CoordTok(247, 467), Word("ar:najm") >>

TrafficReport ==
    << Word("Traffic"), DateTok("dd/mm/yyyy", 31, 2, 2025),
       DateTok("yyyy-mm-dd", 2025, 9, 5), TimeTok("h:mm", 5, 34, "PM"),
       AddrTok("rrrd2929"), CoordTok(0, 467), Word("lorem") >>

\* every text made of some of the tokens of s, in their order
RECURSIVE Selections(_)
Selections(s) ==
    IF Len(s) = 0 THEN {<<>>}
    ELSE LET rest == Selections(Tail(s)) IN
         rest \cup { <<Head(s)>> \o r : r \in rest }

ReportTexts == Selections(NajmReport) \cup Selections(TrafficReport)

\* the documents: no library, a file that does not open, a page whose
\* get_text throws (first, or after a page of text), and readable documents
\* of one page, the empty one among them
FailingPdfs ==
    { Pdf(FALSE, TRUE, <<Page(NajmReport)>>),
      Pdf(TRUE, FALSE, <<>>),
      Pdf(TRUE, TRUE, <<BadPage>>),
      Pdf(TRUE, TRUE, <<Page(NajmReport), BadPage>>),
      Pdf(TRUE, TRUE, <<Page(<<>>)>>) }

TextPdfs == { Pdf(TRUE, TRUE, <<Page(q)>>) : q \in ReportTexts \ {<<>>} }

VerifyDates ==
    { [y |-> 2025, m |-> 9, d |-> 2, form |-> "iso"],
      [y |-> 2025, m |-> 9, d |-> 4, form |-> "iso"],
      [y |-> 2025, m |-> 9, d |-> 2, form |-> "slash"] }

\* the windows 17:00-18:00 and 23:00-01:00, and a start that is no HH:MM
VerifyWindows ==
    { <<[h |-> 17, m |-> 0, form |-> "hh:mm"], [h |-> 18, m |-> 0, form |-> "hh:mm"]>>,
      <<[h |-> 23, m |-> 0, form |-> "hh:mm"], [h |-> 1, m |-> 0, form |-> "hh:mm"]>>,
      <<[h |-> 17, m |-> 0, form |-> "hhmm"], [h |-> 18, m |-> 0, form |-> "hh:mm"]>> }

\* the pairs random.uniform(-0.02, 0.02), random.uniform(-0.015, 0.015) can
\* draw, in grid units: none, and the corners
DemoOffsets == { <<0, 0>>, <<22, 15>>, <<-22, 15>>, <<-22, -15>> }

VerifyUserPlaces ==
    { Sentinel, Place(247, 467), Place(298, 467), Place(0, 467), Place(Inf, 467),
      Place(247, Inf) }

\* what the geocoder answers and random draws while a text is verified
TextAnswers ==
    [fwd_user : VerifyUserPlaces, fwd_prefix : {Sentinel, Place(247, 467)},
     rev : ReverseLabels, fwd_city : {Sentinel, Place(247, 467)}, offset : {<<0, 0>>}]

\* and in the demo branch, which asks for the user's address once
DemoAnswers ==
    [fwd_user : VerifyUserPlaces, fwd_prefix : {Sentinel},
     rev : ReverseLabels, fwd_city : {Sentinel}, offset : DemoOffsets]

VerifyCall(pdf, date, window, env) ==
    [pdf |-> pdf, date |-> date, window |-> window,
     user_date |-> RenderDate(date),
     user_start_time |-> RenderTime(window[1]),
     user_end_time |-> RenderTime(window[2]),
     user_address |-> <<"R", "R", "R", "D", "2", "9", "2", "9">>,
     env |-> env]

VerifyCalls ==
    { VerifyCall(pdf, date, window, env) :
        pdf \in FailingPdfs, date \in VerifyDates, window \in VerifyWindows, env \in DemoAnswers }
      \cup
    { VerifyCall(pdf, date, window, env) :
        pdf \in TextPdfs, date \in VerifyDates, window \in VerifyWindows, env \in TextAnswers }

\* the documents handed to extract_text_from_pdf
ExtractCalls == { [pdf |-> pdf] : pdf \in FailingPdfs \cup TextPdfs }

ExtractTextFromPdf ==
    /\ pc = "call"
    /\ op = "extract_text_from_pdf"
    /\ ret' = ExtractRun(args.pdf)
    /\ pc' = "done"
    /\ UNCHANGED <<op, args, db, resp, now, flight, files, issued>>

VerifyReport ==
    /\ pc = "call"
    /\ op = "verify_report"
    /\ ret' = verify_report(args.pdf, args.user_date, args.user_start_time,
                            args.user_end_time, args.user_address, args.env)
    /\ pc' = "done"
    /\ UNCHANGED <<op, args, db, resp, now, flight, files, issued>>

InitVerify ==
    /\ \/ op = "verify_report" /\ args \in VerifyCalls
       \/ op = "extract_text_from_pdf" /\ args \in ExtractCalls
    /\ pc = "call"
    /\ ret = <<>>
    /\ db = <<>>
    /\ resp = <<>>
    /\ now = 0
    /\ flight = <<>>
    /\ files = {}
    /\ issued = 0

NextVerify == VerifyReport \/ ExtractTextFromPdf

SpecVerify == InitVerify /\ [][NextVerify]_vars

----------------------------------------------------------------------------
(* Claims about the comparators                                            *)

\* minutes since midnight of a time as typed, from its numbers
ClockMinutes(t) == t.h * 60 + t.m

\* the call of compare_dates has returned and the user's date was written as
\* "%Y-%m-%d" reads it
DateCompared ==
    /\ pc = "done"
    /\ op = "compare_dates"
    /\ args.user.form \in {"iso", "short"}
    /\ ValidDate(args.user.y, args.user.m, args.user.d)

\* C5: with the default tolerance of one day compare_dates answers True
\* exactly when the extracted date and the user's date are at most one day
\* apart, in either order; the answer is the same with the two dates
\* swapped, and dates three days apart do not match.
C5_DateTolerance ==
    DateCompared =>
        LET user_dt == [y |-> args.user.y, m |-> args.user.m, d |-> args.user.d]
            days == Ordinal(args.extracted) - Ordinal(user_dt)
        IN /\ ret.match = (days \in {-1, 0, 1})
           /\ ret.match = compare_dates(user_dt, IsoDate(args.extracted), DefaultMaxDiffDays).match
           /\ (days \in {-3, 3} => ~ret.match)

\* the extracted date is the day before the user's date, across a year end,
\* and the comparison matched
C5_Witness ==
    /\ DateCompared
    /\ args.extracted = [y |-> 2024, m |-> 12, d |-> 31]
    /\ args.user.y = 2025 /\ args.user.m = 1 /\ args.user.d = 1
    /\ ret.match

\* the call of compare_times has returned and the three times were written
\* as HH:MM
TimeCompared ==
    /\ pc = "done"
    /\ op = "compare_times"
    /\ args.ext.form = "hh:mm"
    /\ args.start.form = "hh:mm"
    /\ args.end.form = "hh:mm"

\* C6: for every window, also one whose start is later than its end, a time
\* equal to user_start or to user_end matches whatever the tolerance, and a
\* time more than the tolerance before user_start or after user_end does not.
C6_BoundaryAlwaysMatches ==
    TimeCompared =>
        LET e == ClockMinutes(args.ext)
            s == ClockMinutes(args.start)
            n == ClockMinutes(args.end)
        IN /\ (e = s \/ e = n) => ret.match
           /\ (e < s - 60 * args.tol \/ e > n + 60 * args.tol) => ~ret.match

\* the call of compare_times has returned and split(":") and int() could
\* read the three times
TimeRead ==
    /\ pc = "done"
    /\ op = "compare_times"
    /\ Readable(args.ext)
    /\ Readable(args.start)
    /\ Readable(args.end)

\* C7: compare_times answers True exactly when
\* start - 60*tolerance <= extracted <= end + 60*tolerance, in minutes since
\* midnight; on a mismatch the message carries
\* min(|extracted - start|, |extracted - end|) divided by 60, truncated.
C7_TimeWindow ==
    TimeRead =>
        LET e == ClockMinutes(args.ext)
            s == ClockMinutes(args.start)
            n == ClockMinutes(args.end)
            gap == IF Abs(e - s) <= Abs(e - n) THEN Abs(e - s) ELSE Abs(e - n)
        IN /\ ret.match = (s - 60 * args.tol <= e /\ e <= n + 60 * args.tol)
           /\ ret.match => ret.msg = Msg("in_range", 0)
           /\ ~ret.match => ret.msg = Msg("out_of_range", gap \div 60)

\* a time exactly two hours before the start of the window matched under the
\* default tolerance
C7_Witness ==
    /\ TimeRead
    /\ args.tol = DefaultMaxDiffHours
    /\ ClockMinutes(args.ext) = ClockMinutes(args.start) - 120
    /\ ClockMinutes(args.start) <= ClockMinutes(args.end)
    /\ ret.match

\* C10: with p the number of primary (Najm) patterns found in the text and
\* s whether any secondary (traffic) pattern is found, detect_report_source
\* returns (True, primary) if p >= 2, else (True, secondary) if s, else
\* (True, primary) if p >= 1, else (False, ""); one primary hit together
\* with a secondary hit is labelled secondary.
C10_SourceDecision ==
    (pc = "done" /\ op = "detect_report_source") =>
        LET found(pat) == \E i \in 1..Len(args.text) : Contains(args.text[i].v, pat)
            p == Cardinality({ k \in 1..Len(najm_patterns) : found(najm_patterns[k]) })
            s == \E k \in 1..Len(traffic_patterns) : found(traffic_patterns[k])
        IN /\ p >= 2 => ret = <<TRUE, "najm">>
           /\ (p < 2 /\ s) => ret = <<TRUE, "traffic">>
           /\ (p = 1 /\ ~s) => ret = <<TRUE, "najm">>
           /\ (p = 0 /\ ~s) => ret = <<FALSE, "">>

\* a text with exactly one primary hit and a secondary hit was labelled
\* secondary
C10_Witness ==
    /\ pc = "done"
    /\ op = "detect_report_source"
    /\ args.text = <<Word("NAJM"), Word("Traffic")>>
    /\ ret = <<TRUE, "traffic">>

\* the point the user's address resolved to: the answer for the full
\* address, or the answer for the prefix after a sentinel
ResolvedUser ==
    IF args.env.fwd_user.lat = 0 /\ args.env.fwd_user.lng = 0
    THEN args.env.fwd_prefix
    ELSE args.env.fwd_user

IsSentinel(p) == p.lat = 0 /\ p.lng = 0

\* compare_locations has returned a result
LocationCompared ==
    /\ pc = "done"
    /\ op = "compare_locations"
    /\ ~ret.raised

\* C8: when the report coordinates parse to a point other than the (0, 0)
\* sentinel and the user's address geocodes to a point other than the
\* sentinel, compare_locations answers True exactly when the two points are
\* at most 5 km apart, whatever the reverse geocoder answers.
C8_DistanceDecides ==
    ( /\ LocationCompared
      /\ args.extracted_coords.s = "pair"
      /\ ~IsSentinel(args.extracted_coords)
      /\ ~IsSentinel(ResolvedUser) ) =>
        ret.match = (calculate_distance_km(args.extracted_coords.lat, args.extracted_coords.lng,
                                           ResolvedUser.lat, ResolvedUser.lng) <= MAX_DISTANCE)

\* C9: when every forward and reverse geocoding call fails and the report
\* text holds a coordinate pair (other than the sentinel), compare_locations
\* answers True with the message that shows only the coordinate pair,
\* whether or not a city was extracted.
C9_CoordinatesOnlyMessage ==
    ( /\ LocationCompared
      /\ args.extracted_coords.s = "pair"
      /\ ~IsSentinel(args.extracted_coords)
      /\ args.env.fwd_user = Sentinel
      /\ args.env.fwd_prefix = Sentinel
      /\ args.env.fwd_city = Sentinel
      /\ args.env.rev = "" ) =>
        /\ ret.match
        /\ ret.msg = LocMsg("coords", 0, "",
                            [lat |-> args.extracted_coords.lat, lng |-> args.extracted_coords.lng])

----------------------------------------------------------------------------
(* Claims about verify_report                                              *)

Verified == pc = "done" /\ op = "verify_report"

Returned == Verified /\ ~ret.raised

\* the text the extractor handed to verify_report in this call
ExtractedText == extract_text_from_pdf(args.pdf)

Weight(b) == IF b THEN 1 ELSE 0

\* C1: every result verify_report returns, from the demo branch or from a
\* text, has confidence = 30*is_valid_source + 30*date_match + 20*time_match
\* + 20*location_match, a number in 0..100.
C1_ConfidenceFormula ==
    Returned =>
        /\ ret.confidence = 30 * Weight(ret.is_valid_source) + 30 * Weight(ret.date_match)
                              + 20 * Weight(ret.time_match) + 20 * Weight(ret.location_match)
        /\ ret.confidence \in 0..100

\* a text with a recognised source and a time in the window, with no
\* matching date and no matching location: 50
C1_Witness ==
    /\ Returned
    /\ ret.path = "text"
    /\ ret.is_valid_source /\ ~ret.date_match /\ ret.time_match /\ ~ret.location_match
    /\ ret.confidence = 50

\* no source, date, time or location pattern is found in the text
PatternFree(text) ==
    /\ ~detect_report_source(text)[1]
    /\ extract_date_from_text(text) = NoDate
    /\ extract_time_from_text(text) = NoTime
    /\ extract_location_from_text(text)[1] = ""
    /\ extract_location_from_text(text)[2].s = "none"

\* C2: the demo branch runs iff the extracted text is the empty string, and
\* a text that is not empty and holds no pattern gives a result with no
\* source, no source name, three false matches and confidence 0.
C2_DemoIffEmpty ==
    Verified =>
        /\ ret.path = "demo" <=> ExtractedText = <<>>
        /\ (ExtractedText # <<>> /\ PatternFree(ExtractedText)) =>
              /\ ~ret.raised
              /\ ~ret.is_valid_source
              /\ ret.source_name = ""
              /\ ~ret.date_match /\ ~ret.time_match /\ ~ret.location_match
              /\ ret.confidence = 0

C2_Witness ==
    /\ Returned
    /\ ExtractedText = <<Word("lorem")>>
    /\ PatternFree(ExtractedText)
    /\ ret.path = "text"
    /\ ret.confidence = 0

\* C4: verify_report never raises to its caller, whatever the extraction,
\* the geocoder and the user's strings do.
C4_NeverRaises == Verified => ~ret.raised

----------------------------------------------------------------------------
(* The API: main.py over models.py and storage.py                          *)

STATUS_PENDING == "PENDING_APPROVAL"
STATUS_APPROVED == "APPROVED"
STATUS_READY == "READY"
STATUS_REJECTED == "REJECTED"

MaxRequests == 1
MaxTokens == 3
MaxFlight == 2
MaxClock == 36
TickHours == 12

\* a column that is NULL
NoToken == 0
NoExpiry == -1

\* make_download_ready(request_id, hours_valid = 24)
HoursValid == 24

\* secrets.token_urlsafe(24): a token nobody has seen before
generate_token == issued + 1

\* the tokens a caller can present: the ones handed out, and a wrong one
Presented == 0..issued

Ids == 1..MaxRequests

\* SELECT ... WHERE id = ? found a row
Exists(request_id) == request_id \in 1..Len(db)

\* models.set_status
set_status(rows, request_id, status) ==
    [rows EXCEPT ![request_id].status = status]

approve_request(rows, request_id) == set_status(rows, request_id, STATUS_APPROVED)

reject_request(rows, request_id) == set_status(rows, request_id, STATUS_REJECTED)

\* models.set_download_token
set_download_token(rows, request_id, token, expires_at) ==
    [rows EXCEPT ![request_id].download_token = token,
                 ![request_id].download_expires_at = expires_at]

\* models.get_upload_token: the token, or None
get_upload_token(request_id) ==
    IF Exists(request_id) THEN db[request_id].upload_token ELSE NoToken

\* models.create_request: the row it inserts
NewRow(upload_token) ==
    [status |-> STATUS_APPROVED, upload_token |-> upload_token,
     download_token |-> NoToken, download_expires_at |-> NoExpiry]

\* models.make_download_ready on rows
make_download_ready(rows, request_id, token) ==
    set_status(set_download_token(rows, request_id, token, now + HoursValid),
               request_id, STATUS_READY)

validate_download_token_noexpiry(request_id, token) ==
    IF ~Exists(request_id) THEN <<FALSE, "Request not found.">>
    ELSE IF db[request_id].status # STATUS_READY THEN <<FALSE, "Video not ready.">>
    ELSE IF db[request_id].download_token # token THEN <<FALSE, "Invalid token.">>
    ELSE <<TRUE, "">>

\* models.validate_download_token: <<valid, reason>>
validate_download_token(request_id, token) ==
    IF ~Exists(request_id) THEN <<FALSE, "Request not found.">>
    ELSE IF db[request_id].status # STATUS_READY THEN <<FALSE, "Video not ready.">>
    ELSE IF db[request_id].download_token # token THEN <<FALSE, "Invalid token.">>
    ELSE IF db[request_id].download_expires_at # NoExpiry
            /\ now > db[request_id].download_expires_at
         THEN <<FALSE, "Download link expired.">>
    ELSE <<TRUE, "">>

\* what verify_report hands to create_request: a confidence, or an exception
VerifyOutcomes ==
    { [raised |-> FALSE, confidence |-> Score(a, b, c, d)] :
        a \in BOOLEAN, b \in BOOLEAN, c \in BOOLEAN, d \in BOOLEAN }
      \cup { [raised |-> TRUE, confidence |-> 0] }

NoVerification == [raised |-> TRUE, confidence |-> 0]

Response(handler, code, detail) ==
    [handler |-> handler, code |-> code, detail |-> detail, request_id |-> 0,
     status |-> "", upload_token |-> NoToken, download_token |-> NoToken,
     download_expires_at |-> NoExpiry, verification |-> NoVerification]

\* the band of the confidence policy: what create_request writes to the
\* row (nothing, in the middle band) and what it answers
Decide(rows, request_id, confidence) ==
    IF confidence < 80
    THEN [rows |-> reject_request(rows, request_id), status |-> STATUS_REJECTED]
    ELSE IF confidence >= 95
    THEN [rows |-> approve_request(rows, request_id), status |-> STATUS_APPROVED]
    ELSE [rows |-> rows, status |-> STATUS_PENDING]

\* POST /api/requests.  saved tells whether storage.save_report_file wrote
\* the file; v is what verify_report does.
CreateRequest ==
    /\ pc = "api"
    /\ Len(db) < MaxRequests
    /\ issued < MaxTokens
    /\ \E v \in VerifyOutcomes, saved \in BOOLEAN :
        LET request_id == Len(db) + 1
            inserted == Append(db, NewRow(generate_token))
            decision == IF v.raised
                        THEN [rows |-> inserted, status |-> STATUS_PENDING]
                        ELSE Decide(inserted, request_id, v.confidence)
        IN
        /\ issued' = issued + 1
        /\ IF ~saved
           THEN /\ db' = inserted
                /\ resp' = Response("create_request", 500, "")
           ELSE /\ db' = decision.rows
                /\ resp' = [Response("create_request", 201, "") EXCEPT
                              !.request_id = request_id,
                              !.upload_token = inserted[request_id].upload_token,
                              !.status = decision.status,
                              !.verification = v]
    /\ op' = "create_request"
    /\ UNCHANGED <<args, pc, ret, now, flight, files>>

\* GET /api/requests/{request_id}
GetStatus ==
    /\ pc = "api"
    /\ \E request_id \in Ids :
        resp' = IF ~Exists(request_id)
                THEN Response("get_status", 404, "Request not found.")
                ELSE [Response("get_status", 200, "") EXCEPT
                        !.request_id = request_id,
                        !.status = db[request_id].status,
                        !.download_token = db[request_id].download_token,
                        !.download_expires_at = db[request_id].download_expires_at]
    /\ op' = "get_status"
    /\ UNCHANGED <<args, pc, ret, db, now, flight, files, issued>>

\* POST /api/mock/moi/approve/{request_id}
MockApprove ==
    /\ pc = "api"
    /\ \E request_id \in Ids :
        IF ~Exists(request_id)
        THEN /\ resp' = Response("mock_approve", 404, "Request not found.")
             /\ db' = db
        ELSE IF db[request_id].status \notin {STATUS_PENDING, STATUS_REJECTED}
        THEN /\ resp' = [Response("mock_approve", 200, "Already") EXCEPT
                           !.request_id = request_id,
                           !.status = db[request_id].status]
             /\ db' = db
        ELSE /\ resp' = [Response("mock_approve", 200, "Approved") EXCEPT
                           !.request_id = request_id]
             /\ db' = approve_request(db, request_id)
    /\ op' = "mock_approve"
    /\ UNCHANGED <<args, pc, ret, now, flight, files, issued>>

\* POST /api/admin/upload, up to "content = await video.read()"
UploadVideo ==
    /\ pc = "api"
    /\ Len(flight) < MaxFlight
    /\ \E request_id \in Ids, token \in Presented :
        LET expected_token == get_upload_token(request_id) IN
        IF expected_token = NoToken \/ token # expected_token
        THEN /\ resp' = Response("upload_video", 403, "Invalid upload token.")
             /\ flight' = flight
        ELSE IF ~Exists(request_id)
        THEN /\ resp' = Response("upload_video", 404, "Request not found.")
             /\ flight' = flight
        ELSE IF db[request_id].status # STATUS_APPROVED
        THEN /\ resp' = Response("upload_video", 400, "Request not approved yet.")
             /\ flight' = flight
        ELSE /\ resp' = resp
             /\ flight' = Append(flight, request_id)
    /\ op' = "upload_video"
    /\ UNCHANGED <<args, pc, ret, db, now, files, issued>>

\* the omission of the i-th element
Without(s, i) == SubSeq(s, 1, i - 1) \o SubSeq(s, i + 1, Len(s))

\* POST /api/admin/upload, from the return of video.read() to the response
UploadVideoDone ==
    /\ pc = "api"
    /\ issued < MaxTokens
    /\ \E i \in 1..Len(flight) :
        LET request_id == flight[i]
            download_token == generate_token
            rows == make_download_ready(db, request_id, download_token)
        IN
        /\ files' = files \cup {request_id}
        /\ db' = rows
        /\ issued' = issued + 1
        /\ flight' = Without(flight, i)
        /\ resp' = [Response("upload_video", 200, "Upload received") EXCEPT
                      !.request_id = request_id,
                      !.download_token = download_token,
                      !.download_expires_at = rows[request_id].download_expires_at]
    /\ op' = "upload_video"
    /\ UNCHANGED <<args, pc, ret, now>>

\* GET /api/requests/{request_id}/download
DownloadVideo ==
    /\ pc = "api"
    /\ \E request_id \in Ids, token \in Presented :
        LET valid == validate_download_token(request_id, token) IN
        resp' = IF ~valid[1] THEN Response("download_video", 403, valid[2])
                ELSE IF request_id \notin files
                THEN Response("download_video", 404, "Video not found.")
                ELSE [Response("download_video", 200, "") EXCEPT
                        !.request_id = request_id, !.download_token = token]
    /\ op' = "download_video"
    /\ UNCHANGED <<args, pc, ret, db, now, flight, files, issued>>

\* time passes
Tick ==
    /\ pc = "api"
    /\ now < MaxClock
    /\ now' = now + TickHours
    /\ UNCHANGED <<op, args, pc, ret, db, resp, flight, files, issued>>

\* models.init_db() on an empty database
Init ==
    /\ op = ""
    /\ args = <<>>
    /\ pc = "api"
    /\ ret = <<>>
    /\ db = <<>>
    /\ resp = Response("", 0, "")
    /\ now = 0
    /\ flight = <<>>
    /\ files = {}
    /\ issued = 0

Next ==
    \/ CreateRequest
    \/ GetStatus
    \/ MockApprove
    \/ UploadVideo
    \/ UploadVideoDone
    \/ DownloadVideo
    \/ Tick

Spec == Init /\ [][Next]_vars

----------------------------------------------------------------------------
(* Claims about the API                                                    *)

\* the last call was a POST /api/requests whose verification gave a result
Created ==
    /\ resp.handler = "create_request"
    /\ resp.code = 201
    /\ ~resp.verification.raised

Band(confidence) ==
    IF confidence < 80 THEN STATUS_REJECTED
    ELSE IF confidence <= 94 THEN STATUS_PENDING
    ELSE STATUS_APPROVED

\* C3: after POST /api/requests obtained a verification result, the status
\* stored in the row and the status in the response are both REJECTED below
\* 80, PENDING_APPROVAL from 80 to 94 and APPROVED from 95.
C3_StatusFollowsConfidence ==
    Created =>
        /\ resp.status = Band(resp.verification.confidence)
        /\ db[resp.request_id].status = Band(resp.verification.confidence)

\* the half of it that is about the response
C3_ResponseFollowsConfidence ==
    Created => resp.status = Band(resp.verification.confidence)

----------------------------------------------------------------------------
(* Claims about the wording of matches                                     *)

\* the wording an entry shows: the comparator's message inside it when it
\* carries one, else the entry's own
Wording(entry) == IF entry.m.k # "" THEN entry.m.k ELSE entry.k

\* the wordings that say matched or verified
Affirming ==
    { "source_verified", "match", "match_diff", "in_range", "match_distance",
      "same_area", "demo_date", "demo_time", "demo_match_distance", "demo_location" }

\* the wordings that say not matched, not found, cannot compare or unknown
Denying ==
    { "source_unknown", "mismatch_diff", "cannot_compare", "out_of_range",
      "no_date", "no_time", "no_location", "mismatch_distance", "different_areas",
      "cannot_verify", "demo_mismatch_distance" }

Agrees(entry, b) ==
    /\ Wording(entry) \in Affirming => b
    /\ Wording(entry) \in Denying => ~b

\* C11: in every result of verify_report each entry of matches agrees with
\* its field's boolean: a matched or verified wording only with True, a not
\* matched, not found, cannot compare or unknown wording only with False.
C11_WordingAgrees ==
    Returned =>
        /\ Agrees(ret.matches.source, ret.is_valid_source)
        /\ Agrees(ret.matches.date, ret.date_match)
        /\ Agrees(ret.matches.time, ret.time_match)
        /\ Agrees(ret.matches.location, ret.location_match)

\* a text whose source is unknown, whose date is compared and differs, whose
\* time is in the window and whose location is within the limit
C11_Witness ==
    /\ Returned
    /\ ret.path = "text"
    /\ Wording(ret.matches.source) = "source_unknown" /\ ~ret.is_valid_source
    /\ Wording(ret.matches.date) = "mismatch_diff" /\ ~ret.date_match
    /\ Wording(ret.matches.time) = "in_range" /\ ret.time_match
    /\ Wording(ret.matches.location) = "match_distance" /\ ret.location_match

----------------------------------------------------------------------------
(* Claims about the city tiers of compare_locations                        *)

LocationCalled == pc = "done" /\ op = "compare_locations"

\* membership in a sequence
Among(x, s) == \E i \in 1..Len(s) : s[i] = x

\* C12: when the report gives a city name and no coordinates and the user's
\* address geocodes to a point (not the sentinel), and so does the city, the
\* city was sent to the forward geocoder and compare_locations answers True
\* exactly when the city point and the user point are at most 10 km apart.
C12_CityDistance ==
    ( /\ LocationCalled
      /\ args.extracted_city # ""
      /\ args.extracted_coords.s = "none"
      /\ ~IsSentinel(ResolvedUser)
      /\ ~IsSentinel(args.env.fwd_city) ) =>
        /\ ~ret.raised
        /\ Among(CityQuery(args.extracted_city), ret.calls)
        /\ ret.match = (calculate_distance_km(args.env.fwd_city.lat, args.env.fwd_city.lng,
                                              ResolvedUser.lat, ResolvedUser.lng)
                          <= 2 * MAX_DISTANCE)

\* no coordinate pair, or a pair the tiers do not use
NoUsableCoords(coords) == coords.s = "none" \/ coords.lat = 0 \/ coords.lng = 0

NothingResolves ==
    /\ args.env.fwd_user = Sentinel
    /\ args.env.fwd_prefix = Sentinel
    /\ args.env.fwd_city = Sentinel
    /\ args.env.rev = ""

\* C13: with no usable report coordinates and no geocoding call resolving,
\* compare_locations answers "a city name was extracted": True with the
\* message that shows only the city for a city, False with the not-found
\* message when the report gave nothing at all.
C13_CityAlone ==
    ( /\ LocationCalled
      /\ NoUsableCoords(args.extracted_coords)
      /\ NothingResolves ) =>
        /\ ~ret.raised
        /\ ret.match = (args.extracted_city # "")
        /\ args.extracted_city # "" =>
              ret.msg = LocMsg("city", 0, args.extracted_city, NoPoint)
        /\ (args.extracted_city = "" /\ args.extracted_coords.s = "none") =>
              ret.msg = LocMsg("no_location", 0, "", NoPoint)

C13_Witness ==
    /\ LocationCalled
    /\ args.extracted_city = "ar:alriyadh"
    /\ args.extracted_coords = NoCoords
    /\ NothingResolves
    /\ ret.match
    /\ ret.msg = LocMsg("city", 0, "ar:alriyadh", NoPoint)

----------------------------------------------------------------------------
(* Claims about the geocoding of the user's address                        *)

\* the queries for the user's address among the calls of the forward
\* geocoder, in order
AddressQueries ==
    LET ForAddress(q) == q.kind = "address" IN SelectSeq(ret.calls, ForAddress)

\* compare_locations went past its first return
Proceeded == args.extracted_city # "" \/ args.extracted_coords.s # "none"

\* the retry as far as the count and the condition go
RetryOnce ==
    /\ Len(AddressQueries) <= 2
    /\ Proceeded => /\ Len(AddressQueries) >= 1
                    /\ AddressQueries[1] = AddressQuery(args.user_address)
    /\ Len(AddressQueries) = 2 <=> (Proceeded /\ IsSentinel(args.env.fwd_user))

\* C14 as stated: the user's address is geocoded at most twice in a call,
\* first in full, and a second time iff the first answer was the (0, 0)
\* sentinel, then with the first 4 characters of the address as typed.
C14_RetryWithPrefix ==
    LocationCalled =>
        /\ RetryOnce
        /\ Len(AddressQueries) = 2 =>
              AddressQueries[2] = AddressQuery(First4(args.user_address))

\* C14 amended: the second query is the first 4 characters in upper case,
\* or the whole address unchanged when it has fewer than 4 characters.
C14_RetryWithUpperPrefix ==
    LocationCalled =>
        /\ RetryOnce
        /\ Len(AddressQueries) = 2 =>
              AddressQueries[2] =
                  AddressQuery(IF Len(args.user_address) >= 4
                               THEN [i \in 1..4 |-> Upper(args.user_address[i])]
                               ELSE args.user_address)

\* an address typed in lower case whose first answer is the sentinel
C14_Witness ==
    /\ LocationCalled
    /\ args.user_address = <<"r", "r", "r", "d", "2", "9", "2", "9">>
    /\ IsSentinel(args.env.fwd_user)
    /\ Len(AddressQueries) = 2
    /\ AddressQueries[2].text = <<"R", "R", "R", "D">>

----------------------------------------------------------------------------
(* Claims about extract_text_from_pdf                                      *)

Extracted == pc = "done" /\ op = "extract_text_from_pdf"

\* the library is missing, the file does not open or a page throws
ExtractionFails(pdf) ==
    \/ ~pdf.has_pymupdf
    \/ ~pdf.opens
    \/ \E i \in 1..Len(pdf.pages) : pdf.pages[i].throws

\* C15: extract_text_from_pdf returns the empty string on every failure,
\* and whenever the document was opened it has been closed before the
\* function returns, the path where a page throws included.
C15_EmptyAndClosed ==
    Extracted =>
        /\ ExtractionFails(args.pdf) => ret.text = <<>>
        /\ ret.opened => ret.closed

\* the half of it about the returned text
C15_EmptyOnFailure ==
    Extracted => (ExtractionFails(args.pdf) => ret.text = <<>>)

----------------------------------------------------------------------------
(* The field extractors as operations                                      *)

MaxText == 3

\* what a text around a date is made of: labels, a word, dates of every
\* shape (31/02/2025 and 2025-13-05 are no calendar dates), a time
DateVocabulary ==
    { Word("Accident Time"), Word("Version Date"), Word("lorem"),
      DateTok("dd/mm/yyyy", 2, 9, 2025), DateTok("dd/mm/yyyy", 31, 2, 2025),
      DateTok("d/m/yyyy", 3, 9, 2025), DateTok("d-m-yyyy", 4, 9, 2025),
      DateTok("yyyy-mm-dd", 2025, 9, 5), DateTok("yyyy-mm-dd", 2025, 13, 5),
      TimeTok("h:mm", 17, 34, "") }

DateTexts == { [text |-> q] : q \in SeqsUpTo(DateVocabulary, MaxText) }

ExtractDateFromText ==
    /\ pc = "call"
    /\ op = "extract_date_from_text"
    /\ ret' = extract_date_from_text(args.text)
    /\ pc' = "done"
    /\ UNCHANGED <<op, args, db, resp, now, flight, files, issued>>

\* what a text around a time is made of: a label, a word that starts with
\* م, a date, times with and without seconds, markers in either script and
\* either case, noon and midnight hours, digits that are no clock time, the
\* الساعة form, a line break
TimeVocabulary ==
    { Word("Accident Time"), Word("ar:accident location"),
      DateTok("dd/mm/yyyy", 2, 9, 2025),
      TimeTok("h:mm:ss", 17, 34, ""),
      TimeTok("h:mm", 5, 34, "PM"), TimeTok("h:mm", 5, 34, "pm"),
      TimeTok("h:mm", 12, 5, "AM"), TimeTok("h:mm", 12, 5, "PM"),
      TimeTok("h:mm", 5, 34, "ar:pm"), TimeTok("h:mm", 12, 5, "ar:am"),
      TimeTok("h:mm", 9, 5, ""), TimeTok("h:mm", 25, 70, ""),
      TimeTok("at", 5, -1, "ar:pm"), TimeTok("at", 25, -1, ""),
      Newline }

TimeTexts == { [text |-> q] : q \in SeqsUpTo(TimeVocabulary, MaxText) }

ExtractTimeFromText ==
    /\ pc = "call"
    /\ op = "extract_time_from_text"
    /\ ret' = extract_time_from_text(args.text)
    /\ pc' = "done"
    /\ UNCHANGED <<op, args, db, resp, now, flight, files, issued>>

\* what a text around a location is made of: the two labels, city names, Arabic
\* words that are no city name, a Latin word, a time with an Arabic marker,
\* coordinates, a national address in either case, a line break
LocationVocabulary ==
    { Word("Accident Location"), Word("ar:accident location"),
      Word("ar:alriyadh"), Word("ar:jeddah"), Word("ar:najm"), Word("ar:street"),
      Word("lorem"), TimeTok("h:mm", 5, 34, "ar:pm"), CoordTok(247, 467),
      AddrTok("rrrd2929"), AddrTok("RRRD2929"), Newline }

LocationTexts == { [text |-> q] : q \in SeqsUpTo(LocationVocabulary, MaxText) }

ExtractLocationFromText ==
    /\ pc = "call"
    /\ op = "extract_location_from_text"
    /\ ret' = extract_location_from_text(args.text)
    /\ pc' = "done"
    /\ UNCHANGED <<op, args, db, resp, now, flight, files, issued>>

InitExtract ==
    /\ \/ op = "extract_date_from_text" /\ args \in DateTexts
       \/ op = "extract_time_from_text" /\ args \in TimeTexts
       \/ op = "extract_location_from_text" /\ args \in LocationTexts
    /\ pc = "call"
    /\ ret = <<>>
    /\ db = <<>>
    /\ resp = <<>>
    /\ now = 0
    /\ flight = <<>>
    /\ files = {}
    /\ issued = 0

NextExtract ==
    \/ ExtractDateFromText
    \/ ExtractTimeFromText
    \/ ExtractLocationFromText

SpecExtract == InitExtract /\ [][NextExtract]_vars

----------------------------------------------------------------------------
(* Claims about extract_date_from_text                                     *)

DateExtracted == pc = "done" /\ op = "extract_date_from_text"

\* where pattern k matches in the text.  0 is the context-anchored pattern:
\* a day-first date with a label before it and no digit in between; 1 is
\* DD/MM/YYYY, 2 is D/M/YYYY with slashes or dashes, 3 is YYYY-MM-DD.
MatchesOf(text, k) ==
    { i \in 1..Len(text) :
        /\ text[i].t = "date"
        /\ CASE k = 0 -> /\ text[i].shape \in {"dd/mm/yyyy", "d/m/yyyy", "d-m-yyyy"}
                         /\ \E l \in 1..(i - 1) :
                              /\ text[l].t = "word"
                              /\ text[l].v \in {"Accident Time", "Version Date"}
                              /\ \A j \in (l + 1)..(i - 1) : text[j].t = "word"
             [] k = 1 -> text[i].shape = "dd/mm/yyyy"
             [] k = 2 -> text[i].shape \in {"dd/mm/yyyy", "d/m/yyyy", "d-m-yyyy"}
             [] k = 3 -> text[i].shape = "yyyy-mm-dd" }

\* the calendar date pattern k yields: the one its leftmost match forms,
\* NoDate when it has no match or its match is no calendar date
Yield(text, k) ==
    IF MatchesOf(text, k) = {} THEN NoDate
    ELSE LET i == CHOOSE i \in MatchesOf(text, k) : \A j \in MatchesOf(text, k) : i <= j
             y == IF text[i].shape = "yyyy-mm-dd" THEN text[i].a ELSE text[i].c
             d == IF text[i].shape = "yyyy-mm-dd" THEN text[i].c ELSE text[i].a
         IN IF ValidDate(y, text[i].b, d) THEN [y |-> y, m |-> text[i].b, d |-> d] ELSE NoDate

\* C16: the result of extract_date_from_text is the date of the first
\* pattern, in the order anchored, DD/MM/YYYY, D/M/YYYY, YYYY-MM-DD, whose
\* match forms a calendar date; a match that forms none is passed over; the
\* result is absent iff no pattern yields a date.
C16_FirstValidPattern ==
    DateExtracted =>
        /\ \A k \in 0..3 :
              (Yield(args.text, k) # NoDate /\ \A h \in 0..(k - 1) : Yield(args.text, h) = NoDate)
                  => ret = Yield(args.text, k)
        /\ ret = NoDate <=> \A k \in 0..3 : Yield(args.text, k) = NoDate

\* the anchored match and the day-first matches are 31/02/2025, the ISO
\* date after it is the result
C16_Witness ==
    /\ DateExtracted
    /\ args.text = << Word("Accident Time"), DateTok("dd/mm/yyyy", 31, 2, 2025),
                      DateTok("yyyy-mm-dd", 2025, 9, 5) >>
    /\ ret = [y |-> 2025, m |-> 9, d |-> 5]

----------------------------------------------------------------------------
(* Claims about extract_time_from_text                                     *)

TimeExtracted == pc = "done" /\ op = "extract_time_from_text"

\* the markers of each half of the day, in every letter case the time
\* pattern accepts (it is searched ignoring case)
PmMarkers == {"ar:pm", "PM", "pm"}
AmMarkers == {"ar:am", "AM", "am"}

\* the text holds one HH:MM time, with no seconds and no label before it,
\* and no word after it whose first letter could be read as a marker
PlainTime(text, i) ==
    /\ text[i].t = "time"
    /\ text[i].shape = "h:mm"
    /\ \A j \in 1..Len(text) :
          /\ j # i => text[j].t # "time"
          /\ ~IsWord(text[j], TimeLabels)
          /\ LeadingMarker(text[j]) = ""

\* C17: for an HH:MM time, a PM marker adds 12 to an hour other than 12, an
\* AM marker turns hour 12 into 0, in any letter case the pattern accepts,
\* and without a marker the hour is returned as parsed.
C17_MarkerConversion ==
    TimeExtracted =>
        \A i \in 1..Len(args.text) :
            PlainTime(args.text, i) =>
                LET tok == args.text[i]
                    hour == IF tok.marker \in PmMarkers /\ tok.h # 12 THEN tok.h + 12
                            ELSE IF tok.marker \in AmMarkers /\ tok.h = 12 THEN 0
                            ELSE tok.h
                IN ret = HHMM(hour, tok.m)

\* C18: every time extract_time_from_text returns is a zero-padded HH:MM
\* with an hour of 00-23 and a minute of 00-59; digits that form no time of
\* day are never returned.
C18_ValidTimeOfDay ==
    (TimeExtracted /\ ret # NoTime) =>
        \E h \in 0..23, m \in 0..59 : ret = HHMM(h, m)

----------------------------------------------------------------------------
(* Claims about extract_location_from_text                                 *)

LocationExtracted == pc = "done" /\ op = "extract_location_from_text"

\* the positions of the national addresses of a text
AddressesOf(text) == { i \in 1..Len(text) : text[i].t = "address" }

\* the city names of the areas list
Gazetteer == { areas[k] : k \in 1..Len(areas) }

\* C19: the city slot extract_location_from_text returns is the upper-cased
\* national address when the text holds one, whatever city the text names;
\* otherwise it is a city name of the gazetteer or the empty string.
C19_CitySlot ==
    LocationExtracted =>
        IF AddressesOf(args.text) # {}
        THEN ret[1] = UpperCode(args.text[First(AddressesOf(args.text))].code)
        ELSE ret[1] \in Gazetteer \cup {""}

----------------------------------------------------------------------------
(* Claims about the demo branch of verify_report                           *)

\* verify_report was called on a document that yields no text
DemoCalled == Verified /\ ExtractedText = <<>>

\* forward geocoding of the user's address failed
GeocodingFailed == args.env.fwd_user = Sentinel

\* what the demo branch asserts in a result
DemoAsserted ==
    /\ ret.is_valid_source /\ ret.date_match /\ ret.time_match
    /\ ret.confidence \in {80, 100}
    /\ Band(ret.confidence) # STATUS_REJECTED
    /\ GeocodingFailed => ret.location_match /\ ret.confidence = 100

\* C20: whatever the user's input and whatever the geocoder answers, a
\* document that yields no text gets a result with source, date and time
\* true and a confidence of 80 or 100, which the confidence policy does not
\* reject; when geocoding the user's address fails the location matches too
\* and the confidence is 100.
C20_DemoNeverRejected == DemoCalled => ~ret.raised /\ DemoAsserted

\* the same of the results the demo branch returns
C20_DemoResults == (DemoCalled /\ ~ret.raised) => DemoAsserted

----------------------------------------------------------------------------
(* Claims about the life of a request                                      *)

\* this step is a download that is granted
DownloadGranted == DownloadVideo /\ resp'.code = 200

\* the row allows the download of the token at this hour
Downloadable(row, token, hour) ==
    /\ row.status = STATUS_READY
    /\ row.download_token = token
    /\ hour <= row.download_expires_at

\* this step takes request r to READY
BecomesReady(r) ==
    /\ r <= Len(db')
    /\ db'[r].status = STATUS_READY
    /\ r <= Len(db) => db[r].status # STATUS_READY

\* this step is the second half of an upload for request r: the first half
\* found the presented token equal to the upload token and the status
\* APPROVED, and the status is still APPROVED
UploadCompletes(r) ==
    /\ UploadVideoDone
    /\ \E i \in 1..Len(flight) : flight[i] = r
    /\ resp'.request_id = r
    /\ db[r].status = STATUS_APPROVED

\* C21: in every step of the API, a download is granted only when the
\* request is READY, the presented token is the stored download token and
\* the token has not expired; a request becomes READY only by the completion
\* of an upload that was admitted with its upload token while it was
\* APPROVED; and a request that is READY stays READY.
C21_RequestLife ==
    [][ /\ DownloadGranted =>
             /\ Exists(resp'.request_id)
             /\ Downloadable(db[resp'.request_id], resp'.download_token, now)
        /\ \A r \in Ids : BecomesReady(r) => UploadCompletes(r)
        /\ \A r \in 1..Len(db) : db[r].status = STATUS_READY => db'[r].status = STATUS_READY
      ]_vars

\* a download was granted, for a request that is READY and with the token
\* stored in its row
C21_Witness ==
    /\ resp.handler = "download_video"
    /\ resp.code = 200
    /\ db[resp.request_id].status = STATUS_READY
    /\ db[resp.request_id].download_token = resp.download_token
    /\ now <= db[resp.request_id].download_expires_at

----------------------------------------------------------------------------
(* Claims about interleaved uploads                                        *)

\* the last response is a successful upload
UploadReturned == resp.handler = "upload_video" /\ resp.code = 200

\* C22: the download token a successful upload returned is accepted for its
\* request until it expires, whatever another upload for the same request
\* does next, and the expiry returned with it is the one stored with it.
C22_ReturnedTokenLasts ==
    [][ (UploadReturned /\ now' <= resp.download_expires_at) =>
            /\ Downloadable(db'[resp.request_id], resp.download_token, now')
            /\ db'[resp.request_id].download_expires_at = resp.download_expires_at
      ]_vars

\* at the moment an upload returns, and for as long as no other call has
\* answered, its token is the stored one and is accepted with its own expiry
C22_AcceptedWhenReturned ==
    (UploadReturned /\ now <= resp.download_expires_at) =>
        /\ validate_download_token(resp.request_id, resp.download_token)[1]
        /\ db[resp.request_id].download_expires_at = resp.download_expires_at

====
